---- MODULE Spec2Model ----
(***************************************************************************)
(* Controller orchestration (pkg/util/kubernetes/apiserver/controllers.go) *)
(* and the v1 query handlers of the cluster agent                          *)
(* (cmd/cluster-agent/api/v1/install.go).                                  *)
(***************************************************************************)
EXTENDS Integers, Sequences, FiniteSets, TLC

\* Number of timer ticks after which the sync barrier gives up
\* (kube_cache_sync_timeout_seconds, counted in ticks).
SyncTimeout == 2

\* Number of requests the query API serves in one run of the model.
MaxRequests == 2

\* Names of the entries of controllerCatalog.
Names == {"metadata", "autoscalers", "services", "endpoints"}

\* Resource kinds whose informers the start routines name.
Kinds == {"nodes", "endpoints", "services", "hpa", "wpa"}

\* Goroutines launched by the start routines with ctx.StopCh, other than the
\* informers' own Run.
Tasks == {"metaController.Run", "RunWPA", "RunHPA", "RunControllerLoop"}

\* controllerCatalog: the configuration key read by each entry's enabled().
controllerCatalog ==
    [metadata    |-> "kubernetes_collect_metadata_tags",
     autoscalers |-> "external_metrics_provider.enabled",
     services    |-> "cluster_checks.enabled",
     endpoints   |-> "cluster_checks.enabled"]

ConfigKeys == {controllerCatalog[n] : n \in Names}

VARIABLES
    config,        \* config.Datadog: configuration key -> BOOLEAN
    wpaFactory,    \* ctx.WPAInformerFactory != nil
    stopCh,        \* ctx.StopCh is closed
    pc,            \* position of StartControllers: "loop", "start", "sync", "returned"
    cur,           \* the catalog entry whose start routine is running, or "none"
    pending,       \* catalog entries the range loop has not visited yet
    order,         \* the entries in the order the range loop visited them
    enabledCalls,  \* name -> number of calls of enabled()
    started,       \* name -> number of calls of start()
    result,        \* name -> "none" | "skipped" | "ok" | "err" (err is logged)
    informer,      \* kind -> "none" | "registered" | "running" (Run was called)
    hasSynced,     \* kinds whose informer reports HasSynced
    handlers,      \* kind -> controllers that registered an event handler
    tasks,         \* the goroutines launched with ctx.StopCh
    waitSet,       \* named caches the pending SyncInformers call waits for
    elapsed,       \* timer ticks spent in the pending SyncInformers call
    syncCalls,     \* name -> number of SyncInformers calls made by its start routine
    syncReturn,    \* name -> what its SyncInformers call returned, or NoReturn
    factoryStarts, \* number of calls of ctx.InformerFactory.Start
    retVal,        \* what StartControllers returned: "none" (not yet) or "nil"
    apiRequests,   \* the api_requests counter: <<handler, status>> -> count
    served,        \* number of requests served so far
    resp,          \* the last request served and the response it got
    isLeader,      \* what ctx.LeaderElector's IsLeader() answers now
    tick,          \* the autoscalers controller's reconciliation: "idle" | "running"
    nodeBundle,    \* NodeTagBundle: node name -> its labels
    nodeEvents,    \* the last two Node events applied, each with the bundle before it
    podBundle,     \* PodTagBundle: node name -> (<<ns, pod>> -> set of service names)
    endpointEvents \* the last Endpoint event applied, with the bundle before it

orchVars == <<config, wpaFactory, stopCh, pc, cur, pending, order, enabledCalls,
              started, result, informer, hasSynced, handlers, tasks, waitSet,
              elapsed, syncCalls, syncReturn, factoryStarts, retVal>>

queryVars == <<apiRequests, served, resp>>

leaderVars == <<isLeader, tick>>

bundleVars == <<nodeBundle, nodeEvents, podBundle, endpointEvents>>

vars == <<orchVars, queryVars, leaderVars, bundleVars>>

NoReturn == [returned |-> FALSE]

\* The informers whose Run was called: they have begun dispatching events.
Dispatching(k) == informer[k] = "running"

\* A goroutine or an informer's Run was given ctx.StopCh and goes on until
\* the channel is closed.
TaskLive(t) == t \in tasks /\ ~stopCh

InformerLive(k) == informer[k] = "running" /\ ~stopCh

(***************************************************************************)
(* controllerCatalog and StartControllers                                  *)
(***************************************************************************)

\* controllerFuncs.enabled of entry name.
enabled(name) == config[controllerCatalog[name]]

\* Faulty variant: the loop does not test enabled().
Skipped_Never(name) == FALSE

\* The range loop's test: the entry is skipped.
Skipped(name) == ~enabled(name)

\* Faulty variant: the loop gives up at the first start routine that fails.
AfterStart_Abort(err) == IF err THEN "returned" ELSE "loop"

\* What the loop does with the error a start routine returned: it logs it and
\* goes on with the next entry.
AfterStart(err) == "loop"

\* Faulty variant: the factory is started without waiting for the end of the loop.
LoopDone_Early == TRUE

\* The range loop has visited every entry of the catalog.
LoopDone == pending = {}

\* Faulty variant: an entry found disabled stays in the range and its
\* predicate is evaluated again later.
LoopVisit_Recheck(name) ==
    /\ pc = "loop"
    /\ name \in pending
    /\ order' = Append(order, name)
    /\ enabledCalls' = [enabledCalls EXCEPT ![name] = @ + 1]
    /\ IF Skipped(name)
         THEN /\ result' = [result EXCEPT ![name] = "skipped"]
              /\ UNCHANGED <<pc, cur, started, pending>>
         ELSE /\ started' = [started EXCEPT ![name] = @ + 1]
              /\ pending' = pending \ {name}
              /\ cur' = name
              /\ pc' = "start"
              /\ UNCHANGED result
    /\ UNCHANGED <<config, wpaFactory, stopCh, informer, hasSynced, handlers,
                   tasks, waitSet, elapsed, syncCalls, syncReturn,
                   factoryStarts, retVal,
                   queryVars, leaderVars, bundleVars>>

\* The range loop visits one entry, in any order (Go map iteration order).
LoopVisit(name) ==
    /\ pc = "loop"
    /\ name \in pending
    /\ pending' = pending \ {name}
    /\ order' = Append(order, name)
    /\ enabledCalls' = [enabledCalls EXCEPT ![name] = @ + 1]
    /\ IF Skipped(name)
         THEN /\ result' = [result EXCEPT ![name] = "skipped"]
              /\ UNCHANGED <<pc, cur, started>>
         ELSE /\ started' = [started EXCEPT ![name] = @ + 1]
              /\ cur' = name
              /\ pc' = "start"
              /\ UNCHANGED result
    /\ UNCHANGED <<config, wpaFactory, stopCh, informer, hasSynced, handlers,
                   tasks, waitSet, elapsed, syncCalls, syncReturn,
                   factoryStarts, retVal,
                   queryVars, leaderVars, bundleVars>>

\* The informers ctx.InformerFactory.Start runs: those created in the factory.
FactoryRuns == {k \in Kinds \ {"wpa"} : informer[k] = "registered"}

\* Faulty variant: StartControllers returns nil without starting the factory.
FactoryStartAndReturn_NoStart ==
    /\ pc = "loop"
    /\ LoopDone
    /\ retVal' = "nil"
    /\ pc' = "returned"
    /\ UNCHANGED <<config, wpaFactory, stopCh, cur, pending, order, enabledCalls,
                   started, result, informer, hasSynced, handlers, tasks,
                   waitSet, elapsed, syncCalls, syncReturn, factoryStarts,
                   queryVars, leaderVars, bundleVars>>

\* The loop is over: ctx.InformerFactory.Start(ctx.StopCh), then return nil.
FactoryStartAndReturn ==
    /\ pc = "loop"
    /\ LoopDone
    /\ informer' = [k \in Kinds |-> IF k \in FactoryRuns THEN "running" ELSE informer[k]]
    /\ factoryStarts' = factoryStarts + 1
    /\ retVal' = "nil"
    /\ pc' = "returned"
    /\ UNCHANGED <<config, wpaFactory, stopCh, cur, pending, order, enabledCalls,
                   started, result, hasSynced, handlers, tasks, waitSet, elapsed,
                   syncCalls, syncReturn,
                   queryVars, leaderVars, bundleVars>>

(***************************************************************************)
(* The start routines.  Each runs up to its SyncInformers call, where it   *)
(* blocks; the goroutines it launched go on by themselves.                 *)
(***************************************************************************)

\* A start routine reaches its barrier: reg are the informers it obtains from
\* the factory (created there on first use), subs those its controller
\* registers an event handler with, direct those it runs itself with
\* `go ...Informer().Run(ctx.StopCh)`, launch the goroutines it launches, and
\* syncSet the named caches it hands to SyncInformers.
EnterBarrier(reg, subs, direct, launch, syncSet) ==
    /\ informer' = [k \in Kinds |->
                      IF k \in direct /\ informer[k] \in {"none", "registered"}
                        THEN "running"
                      ELSE IF k \in reg /\ informer[k] = "none"
                        THEN "registered"
                      ELSE informer[k]]
    /\ handlers' = [k \in Kinds |->
                      IF k \in subs THEN handlers[k] \cup {cur} ELSE handlers[k]]
    /\ tasks' = tasks \cup launch
    /\ waitSet' = syncSet
    /\ elapsed' = 0
    /\ syncCalls' = [syncCalls EXCEPT ![cur] = @ + 1]
    /\ pc' = "sync"
    /\ UNCHANGED <<config, wpaFactory, stopCh, cur, pending, order, enabledCalls,
                   started, result, hasSynced, syncReturn, factoryStarts, retVal,
                   queryVars, leaderVars, bundleVars>>

\* The informers map startAutoscalersController builds.
AutoscalersInformers == IF wpaFactory THEN {"wpa", "hpa"} ELSE {"hpa"}

\* The named caches each start routine hands to SyncInformers.
SyncSetOf(name) ==
    CASE name = "metadata"    -> {"nodes", "endpoints"}
      [] name = "autoscalers" -> AutoscalersInformers
      [] name = "services"    -> {"services"}
      [] name = "endpoints"   -> {"endpoints"}

\* Faulty variant: startMetadataController runs the nodes informer itself.
MetadataRuns_Nodes == {"nodes"}

\* The informers startMetadataController runs itself: none, NewMetadataController
\* only takes the nodes and endpoints informers of the factory.
MetadataRuns == {}

startMetadataController ==
    /\ pc = "start"
    /\ cur = "metadata"
    /\ EnterBarrier({"nodes", "endpoints"}, {"nodes", "endpoints"}, MetadataRuns,
                    {"metaController.Run"}, SyncSetOf("metadata"))

\* The informers startServicesInformer and startEndpointsInformer run themselves.
ServicesRuns == {"services"}

EndpointsRuns == {"endpoints"}

startServicesInformer ==
    /\ pc = "start"
    /\ cur = "services"
    /\ EnterBarrier({"services"}, {}, ServicesRuns, {}, SyncSetOf("services"))

startEndpointsInformer ==
    /\ pc = "start"
    /\ cur = "endpoints"
    /\ EnterBarrier({"endpoints"}, {}, EndpointsRuns, {}, SyncSetOf("endpoints"))

startAutoscalersController ==
    /\ pc = "start"
    /\ cur = "autoscalers"
    /\ EnterBarrier(AutoscalersInformers, AutoscalersInformers, {},
                    (IF wpaFactory THEN {"RunWPA"} ELSE {})
                        \cup {"RunHPA", "RunControllerLoop"},
                    SyncSetOf("autoscalers"))

\* autoscalers.NewDatadogClient or NewAutoscalersController returns an error:
\* startAutoscalersController returns it before anything is launched.
startAutoscalersControllerFails ==
    /\ pc = "start"
    /\ cur = "autoscalers"
    /\ \E cause \in {"NewDatadogClient", "NewAutoscalersController"} :
          result' = [result EXCEPT ![cur] = "err"]
    /\ pc' = AfterStart(TRUE)
    /\ cur' = "none"
    /\ UNCHANGED <<config, wpaFactory, stopCh, pending, order, enabledCalls,
                   started, informer, hasSynced, handlers, tasks, waitSet,
                   elapsed, syncCalls, syncReturn, factoryStarts, retVal,
                   queryVars, leaderVars, bundleVars>>

(***************************************************************************)
(* SyncInformers: the barrier every start routine ends with.  It is given  *)
(* the named caches only.                                                  *)
(***************************************************************************)

\* The named caches that have not synced.
NotSynced(caches) == caches \ hasSynced

\* What SyncInformers(caches) returns when it ends now.
SyncInformers(caches) ==
    [returned |-> TRUE,
     caches   |-> caches,
     err      |-> NotSynced(caches) # {},
     failed   |-> NotSynced(caches),
     elapsed  |-> elapsed]

\* Faulty variant: the start routine drops the barrier's error and returns nil.
StartError_Nil(ret) == FALSE

\* The error a start routine returns: the one of its SyncInformers call.
StartError(ret) == ret.err

\* The barrier stops waiting: every named cache has synced, or the timeout
\* is reached.
BarrierEnds == NotSynced(waitSet) = {} \/ elapsed = SyncTimeout

\* One timer tick goes by while the barrier waits.
SyncTick ==
    /\ pc = "sync"
    /\ ~BarrierEnds
    /\ elapsed' = elapsed + 1
    /\ UNCHANGED <<config, wpaFactory, stopCh, pc, cur, pending, order,
                   enabledCalls, started, result, informer, hasSynced, handlers,
                   tasks, waitSet, syncCalls, syncReturn, factoryStarts, retVal,
                   queryVars, leaderVars, bundleVars>>

\* The barrier ends; the start routine returns the barrier's error, the loop
\* logs it and goes on.
SyncInformersReturn ==
    /\ pc = "sync"
    /\ BarrierEnds
    /\ LET ret == SyncInformers(waitSet) IN
         /\ syncReturn' = [syncReturn EXCEPT ![cur] = ret]
         /\ result' = [result EXCEPT ![cur] = IF StartError(ret) THEN "err" ELSE "ok"]
         /\ pc' = AfterStart(StartError(ret))
    /\ cur' = "none"
    /\ waitSet' = {}
    /\ elapsed' = 0
    /\ UNCHANGED <<config, wpaFactory, stopCh, pending, order, enabledCalls,
                   started, informer, hasSynced, handlers, tasks, syncCalls,
                   factoryStarts, retVal,
                   queryVars, leaderVars, bundleVars>>

(***************************************************************************)
(* The informers and the goroutines, and the shutdown signal.              *)
(***************************************************************************)

\* A running informer completes its initial list.
InformerSync(k) ==
    /\ InformerLive(k)
    /\ k \notin hasSynced
    /\ hasSynced' = hasSynced \cup {k}
    /\ UNCHANGED <<config, wpaFactory, stopCh, pc, cur, pending, order,
                   enabledCalls, started, result, informer, handlers, tasks,
                   waitSet, elapsed, syncCalls, syncReturn, factoryStarts, retVal,
                   queryVars, leaderVars, bundleVars>>

\* RunWPA was given ctx.WPAInformerFactory: it is the one that can start the
\* WPA informer.
RunWPA ==
    /\ TaskLive("RunWPA")
    /\ informer["wpa"] = "registered"
    /\ informer' = [informer EXCEPT !["wpa"] = "running"]
    /\ UNCHANGED <<config, wpaFactory, stopCh, pc, cur, pending, order,
                   enabledCalls, started, result, hasSynced, handlers, tasks,
                   waitSet, elapsed, syncCalls, syncReturn, factoryStarts, retVal,
                   queryVars, leaderVars, bundleVars>>

\* ctx.StopCh is closed.
Shutdown ==
    /\ ~stopCh
    /\ stopCh' = TRUE
    /\ UNCHANGED <<config, wpaFactory, pc, cur, pending, order, enabledCalls,
                   started, result, informer, hasSynced, handlers, tasks,
                   waitSet, elapsed, syncCalls, syncReturn, factoryStarts, retVal,
                   queryVars, leaderVars, bundleVars>>

(***************************************************************************)
(* The v1 query API: http.ResponseWriter, json.Marshal and the handlers.   *)
(***************************************************************************)

StatusOK == 200

StatusNotFound == 404

StatusInternalServerError == 500

StatusServiceUnavailable == 503

Statuses == {StatusOK, StatusNotFound, StatusInternalServerError,
             StatusServiceUnavailable}

\* The handler functions Install registers, and the route each one serves.
Handlers == {"getPodMetadata", "getPodMetadataForNode", "getAllMetadata",
             "getNodeMetadata", "getAllCFAppsMetadata"}

Install ==
    [getPodMetadata        |-> "/tags/pod/{nodeName}/{ns}/{podName}",
     getPodMetadataForNode |-> "/tags/pod/{nodeName}",
     getAllMetadata        |-> "/tags/pod",
     getNodeMetadata       |-> "/tags/node/{nodeName}",
     getAllCFAppsMetadata  |-> "/tags/cf/apps"]

\* The handler labels the code passes to apiRequests.Inc.
HandlerLabels == Handlers \cup {"getCFAppMetadata"}

CounterKeys == HandlerLabels \X Statuses

\* Names a request can carry.
NodeNames == {"n1", "unknown"}

Namespaces == {"default"}

PodNames == {"p1"}

\* Values the collaborators hand to the handlers: a nil slice or map, a list
\* of strings, a map given by its keys.
Nil == [kind |-> "nil", items |-> <<>>]

List(items) == [kind |-> "list", items |-> items]

Map(items) == [kind |-> "map", items |-> items]

LabelValues == {Nil, List(<<>>), List(<<"label1:value1">>)}

TagValues == {Nil, List(<<>>), List(<<"kube_service:svc-a">>)}

PodMapValues == {Nil, Map(<<>>), Map(<<"default/p1">>)}

NodeMapValues == {Nil, Map(<<>>), Map(<<"n1">>), Map(<<"n1", "Error">>)}

AppValues == {Nil, Map(<<>>), Map(<<"app1">>)}

\* The error of a collaborator: "" is nil.
NoError == ""

\* json.Marshal of a value: its bytes, as tokens.  No value encodes to nothing.
Marshal(v) ==
    CASE v.kind = "nil"  -> <<"null">>
      [] v.kind = "list" -> <<"[">> \o v.items \o <<"]">>
      [] v.kind = "map"  -> <<"{">> \o v.items \o <<"}">>

\* json.Marshal(v) with its error: encErr is the error it returns, if any.
JSONMarshal(v, encErr) ==
    IF encErr # NoError
      THEN [bytes |-> <<>>, err |-> encErr]
      ELSE [bytes |-> Marshal(v), err |-> NoError]

\* http.ResponseWriter: the status is committed by the first WriteHeader or
\* Write; a later WriteHeader changes nothing.
NewResponseWriter == [status |-> 0, body |-> <<>>, headerCalls |-> <<>>]

WriteHeader(w, code) ==
    [w EXCEPT !.status = IF @ = 0 THEN code ELSE @,
              !.headerCalls = Append(@, code)]

Write(w, bytes) ==
    [w EXCEPT !.status = IF @ = 0 THEN StatusOK ELSE @,
              !.body = @ \o bytes]

\* http.Error(w, msg, code).
HTTPError(w, msg, code) == Write(WriteHeader(w, code), <<msg>>)

\* The server ends the response when the handler returns: a handler that
\* wrote nothing has answered 200 with an empty body.
Finish(w) == [w EXCEPT !.status = IF @ = 0 THEN StatusOK ELSE @]

\* A handler's run: the response writer and the counter increments it made.
Run(w) == [w |-> w, incs |-> <<>>]

\* apiRequests.Inc(handler, strconv.Itoa(status)).
Inc(r, handler, status) == [r EXCEPT !.incs = Append(@, <<handler, status>>)]

OnWriter(r, w) == [r EXCEPT !.w = w]

getAllCFAppsMetadata(cacheErr, tags, encErr) ==
    LET r0 == Run(NewResponseWriter)
        m  == JSONMarshal(tags, encErr)
    IN  IF cacheErr # NoError
          THEN Inc(OnWriter(r0, HTTPError(r0.w, cacheErr, StatusInternalServerError)),
                   "getCFAppMetadata", StatusInternalServerError)
        ELSE IF m.err # NoError
          THEN Inc(OnWriter(r0, HTTPError(r0.w, m.err, StatusInternalServerError)),
                   "getAllCFAppsMetadata", StatusInternalServerError)
        ELSE IF Len(m.bytes) > 0
          THEN Inc(OnWriter(r0, Write(WriteHeader(r0.w, StatusOK), m.bytes)),
                   "getAllCFAppsMetadata", StatusOK)
        ELSE r0

getNodeMetadata(nodeName, nodeLabels, err, encErr) ==
    LET r0 == Run(NewResponseWriter)
        m  == JSONMarshal(nodeLabels, encErr)
    IN  IF err # NoError
          THEN Inc(OnWriter(r0, HTTPError(r0.w, err, StatusInternalServerError)),
                   "getNodeMetadata", StatusInternalServerError)
        ELSE IF m.err # NoError
          THEN Inc(OnWriter(r0, HTTPError(r0.w, m.err, StatusInternalServerError)),
                   "getNodeMetadata", StatusInternalServerError)
        ELSE IF Len(m.bytes) > 0
          THEN Inc(OnWriter(r0, Write(WriteHeader(r0.w, StatusOK), m.bytes)),
                   "getNodeMetadata", StatusOK)
        ELSE LET r1 == Inc(OnWriter(r0, WriteHeader(r0.w, StatusNotFound)),
                           "getNodeMetadata", StatusNotFound)
             IN  OnWriter(r1, Write(r1.w,
                     <<"Could not find labels on the node: ", nodeName>>))

getPodMetadata(nodeName, ns, podName, metaList, errMetaList, encErr) ==
    LET r0 == Run(NewResponseWriter)
        m  == JSONMarshal(metaList, encErr)
    IN  IF errMetaList # NoError
          THEN Inc(OnWriter(r0, HTTPError(r0.w, errMetaList, StatusInternalServerError)),
                   "getPodMetadata", StatusInternalServerError)
        ELSE IF m.err # NoError
          THEN Inc(OnWriter(r0, HTTPError(r0.w, m.err, StatusInternalServerError)),
                   "getPodMetadata", StatusInternalServerError)
        ELSE IF Len(m.bytes) # 0
          THEN Inc(OnWriter(r0, Write(WriteHeader(r0.w, StatusOK), m.bytes)),
                   "getPodMetadata", StatusOK)
        ELSE LET r1 == Inc(OnWriter(r0, WriteHeader(r0.w, StatusNotFound)),
                           "getPodMetadata", StatusNotFound)
             IN  OnWriter(r1, Write(r1.w,
                     <<"Could not find associated metadata mapped to the pod: ",
                       podName, " on node: ", nodeName>>))

\* Faulty variant: the return that ends the 200 branch is missing.
getPodMetadataForNode_NoReturn(nodeName, metaList, errNodes, encErr) ==
    LET r0 == Run(NewResponseWriter)
        m  == JSONMarshal(metaList, encErr)
        r1 == Inc(OnWriter(r0, Write(WriteHeader(r0.w, StatusOK), m.bytes)),
                  "getPodMetadataForNode", StatusOK)
    IN  IF m.err # NoError
          THEN Inc(OnWriter(r0, HTTPError(r0.w, m.err, StatusInternalServerError)),
                   "getPodMetadataForNode", StatusInternalServerError)
        ELSE Inc(OnWriter(r1, WriteHeader(r1.w, StatusNotFound)),
                 "getPodMetadata", StatusNotFound)

\* Faulty variant: errNodes is answered 503, as getAllMetadata does with its
\* aggregator error.
getPodMetadataForNode_Unavailable(nodeName, metaList, errNodes, encErr) ==
    LET r0 == Run(NewResponseWriter)
        r1 == OnWriter(r0, WriteHeader(r0.w,
                  IF errNodes # NoError THEN StatusServiceUnavailable
                                        ELSE StatusOK))
        m  == JSONMarshal(metaList, encErr)
    IN  IF m.err # NoError
          THEN Inc(OnWriter(r0, HTTPError(r0.w, m.err, StatusInternalServerError)),
                   "getPodMetadataForNode", StatusInternalServerError)
        ELSE Inc(OnWriter(r1, Write(r1.w, m.bytes)),
                 "getPodMetadataForNode", StatusOK)

\* errNodes is only logged as a warning.
getPodMetadataForNode(nodeName, metaList, errNodes, encErr) ==
    LET r0 == Run(NewResponseWriter)
        m  == JSONMarshal(metaList, encErr)
    IN  IF m.err # NoError
          THEN Inc(OnWriter(r0, HTTPError(r0.w, m.err, StatusInternalServerError)),
                   "getPodMetadataForNode", StatusInternalServerError)
        ELSE IF Len(m.bytes) # 0
          THEN Inc(OnWriter(r0, Write(WriteHeader(r0.w, StatusOK), m.bytes)),
                   "getPodMetadataForNode", StatusOK)
        ELSE Inc(OnWriter(r0, WriteHeader(r0.w, StatusNotFound)),
                 "getPodMetadata", StatusNotFound)

getAllMetadata(clientErr, metaList, errAPIServer, encErr) ==
    LET r0 == Run(NewResponseWriter)
        r1 == OnWriter(r0, WriteHeader(r0.w,
                  IF errAPIServer # NoError THEN StatusServiceUnavailable
                                            ELSE StatusOK))
        m  == JSONMarshal(metaList, encErr)
    IN  IF clientErr # NoError
          THEN Inc(OnWriter(r0, HTTPError(r0.w, clientErr, StatusInternalServerError)),
                   "getAllMetadata", StatusInternalServerError)
        ELSE IF m.err # NoError
          THEN Inc(OnWriter(r1, HTTPError(r1.w, m.err, StatusInternalServerError)),
                   "getAllMetadata", StatusInternalServerError)
        ELSE IF Len(m.bytes) # 0
          THEN Inc(OnWriter(r1, Write(r1.w, m.bytes)), "getAllMetadata", StatusOK)
        ELSE Inc(OnWriter(r1, WriteHeader(r1.w, StatusNotFound)),
                 "getAllMetadata", StatusNotFound)

\* No request has been served yet.
NoResponse == [served |-> FALSE]

\* The counter after the increments of one handler run.
Counted(counter, incs) ==
    [key \in CounterKeys |->
        counter[key] + Cardinality({i \in 1..Len(incs) : incs[i] = key})]

\* The router hands a request to handler, which runs to its end; r is its
\* run, key the names in the request path, value what the collaborator
\* returned, collabErr the error of the call the handler cannot go on without,
\* aggErr the error the aggregator returned beside its value, encErr the
\* error of json.Marshal.
Serve(handler, r, key, value, collabErr, aggErr, encErr) ==
    /\ served' = served + 1
    /\ apiRequests' = Counted(apiRequests, r.incs)
    /\ resp' = [served      |-> TRUE,
                handler     |-> handler,
                route       |-> Install[handler],
                key         |-> key,
                value       |-> value,
                collabErr   |-> collabErr,
                aggErr      |-> aggErr,
                encErr      |-> encErr,
                status      |-> Finish(r.w).status,
                body        |-> r.w.body,
                headerCalls |-> r.w.headerCalls,
                incs        |-> r.incs]
    /\ UNCHANGED <<orchVars, leaderVars, bundleVars>>

\* The errors the collaborators and json.Marshal can return ("" is nil).
EncodeErrors == {NoError, "json: unsupported value"}

\* What a call returning (value, error) can return: a value and no error, or
\* no value and the error.
Returns(values, error) ==
    {<<v, NoError>> : v \in values} \cup {<<Nil, error>>}

\* What the aggregator can return for a node or for all nodes: a value, with
\* an error beside it or not.
ReturnsPartial(values, error) == values \X {NoError, error}

ServeAllCFAppsMetadata ==
    /\ served < MaxRequests
    /\ \E cacheErr \in {NoError, "global BBS cache not initialized"},
          tags \in AppValues, encErr \in EncodeErrors :
           Serve("getAllCFAppsMetadata",
                 getAllCFAppsMetadata(cacheErr, tags, encErr),
                 <<>>, tags, cacheErr, NoError,
                 IF cacheErr = NoError THEN encErr ELSE NoError)

ServeNodeMetadata ==
    /\ served < MaxRequests
    /\ \E nodeName \in NodeNames,
          got \in Returns(LabelValues, "no cached metadata found for the node"),
          encErr \in EncodeErrors :
           Serve("getNodeMetadata",
                 getNodeMetadata(nodeName, got[1], got[2], encErr),
                 <<nodeName>>, got[1], got[2], NoError,
                 IF got[2] = NoError THEN encErr ELSE NoError)

ServePodMetadata ==
    /\ served < MaxRequests
    /\ \E nodeName \in NodeNames, ns \in Namespaces, podName \in PodNames,
          got \in Returns(TagValues, "no cached metadata found for the pod"),
          encErr \in EncodeErrors :
           Serve("getPodMetadata",
                 getPodMetadata(nodeName, ns, podName, got[1], got[2], encErr),
                 <<nodeName, ns, podName>>, got[1], got[2], NoError,
                 IF got[2] = NoError THEN encErr ELSE NoError)

ServePodMetadataForNode ==
    /\ served < MaxRequests
    /\ \E nodeName \in NodeNames,
          got \in ReturnsPartial(PodMapValues, "the key was not found in the cache"),
          encErr \in EncodeErrors :
           Serve("getPodMetadataForNode",
                 getPodMetadataForNode(nodeName, got[1], got[2], encErr),
                 <<nodeName>>, got[1], NoError, got[2], encErr)

ServeAllMetadata ==
    /\ served < MaxRequests
    /\ \E clientErr \in {NoError, "temporary failure in apiserver"},
          got \in ReturnsPartial(NodeMapValues, "could not collect the service map for all nodes"),
          encErr \in EncodeErrors :
           Serve("getAllMetadata",
                 getAllMetadata(clientErr, got[1], got[2], encErr),
                 <<>>, got[1], clientErr,
                 IF clientErr = NoError THEN got[2] ELSE NoError,
                 IF clientErr = NoError THEN encErr ELSE NoError)

(***************************************************************************)
(* The leader-gated reconciliation of the autoscalers controller, which    *)
(* startAutoscalersController builds with ctx.LeaderElector and runs with  *)
(* RunControllerLoop(ctx.StopCh).                                          *)
(***************************************************************************)

\* Faulty variant: the loop reconciles without asking the leader elector.
LeaderGate_Open == TRUE

\* The test the loop makes when a tick is due: isLeader().
LeaderGate == isLeader

\* The leader election gives or takes away leadership.
LeaderChange ==
    /\ isLeader' = ~isLeader
    /\ UNCHANGED <<orchVars, queryVars, tick, bundleVars>>

\* A tick is due and the process is the leader: the reconciliation starts.
\* (When it is not the leader the tick is dropped: nothing changes.)
TickStart ==
    /\ TaskLive("RunControllerLoop")
    /\ tick = "idle"
    /\ LeaderGate
    /\ tick' = "running"
    /\ UNCHANGED <<orchVars, queryVars, isLeader, bundleVars>>

\* The reconciliation under way ends; it is not preempted.
TickEnd ==
    /\ tick = "running"
    /\ tick' = "idle"
    /\ UNCHANGED <<orchVars, queryVars, isLeader, bundleVars>>

(***************************************************************************)
(* The metadata aggregator: the tag bundles the metadata controller keeps  *)
(* from Node and Endpoint events, and the lookups the handlers call.       *)
(***************************************************************************)

\* Nodes, label lists, services and pods (node, namespace, pod) of the events.
BundleNodes == {"n1", "n2"}

NodeLabelLists == {<<"label1:value1">>, <<"label1:value1", "label2:value2">>}

ServiceOrder == <<"svc-a", "svc-b">>

ServiceNames == {ServiceOrder[i] : i \in 1..Len(ServiceOrder)}

Backends == {<<"n1", "default", "p1">>, <<"n1", "default", "p2">>,
             <<"n2", "default", "p3">>}

\* A node and a pod no event ever names.
UnknownNode == "unknown"

UnknownPod == <<"n1", "default", "ghost">>

\* A bundle with no entry.
EmptyBundle == [n \in {} |-> <<>>]

\* b with the entry of key k replaced by v, in one step.
Put(b, k, v) == [x \in DOMAIN b \cup {k} |-> IF x = k THEN v ELSE b[x]]

\* The last k events of a history.
Recent(h, k) == IF Len(h) > k THEN SubSeq(h, Len(h) - k + 1, Len(h)) ELSE h

\* Faulty variant: the deleted node keeps an entry, with no label.
DeleteNode_KeepEmpty(b, n) == Put(b, n, <<>>)

\* Node delete: the entry is removed.
DeleteNode(b, n) == [x \in DOMAIN b \ {n} |-> b[x]]

\* A Node event is applied to NodeTagBundle.
NodeEvent(op, n, after) ==
    /\ nodeBundle' = after
    /\ nodeEvents' = Recent(Append(nodeEvents,
                         [op |-> op, node |-> n, before |-> nodeBundle]), 2)
    /\ UNCHANGED <<orchVars, queryVars, leaderVars, podBundle, endpointEvents>>

\* Node add and update: the node's label list replaces its entry.
NodeAdd(n, labels) == NodeEvent("add", n, Put(nodeBundle, n, labels))

NodeUpdate(n, labels) ==
    /\ n \in DOMAIN nodeBundle
    /\ NodeEvent("update", n, Put(nodeBundle, n, labels))

NodeDelete(n) == NodeEvent("delete", n, DeleteNode(nodeBundle, n))

\* as.GetNodeLabels(nodeName) on bundle b: the labels, or the error of a node
\* that has no entry.
GetNodeLabels(b, nodeName) ==
    IF nodeName \in DOMAIN b
      THEN <<List(b[nodeName]), NoError>>
      ELSE <<Nil, "no cached metadata found for the node">>

\* The answer of GET /tags/node/{nodeName} on bundle b.
ByNode(b, nodeName) ==
    LET got == GetNodeLabels(b, nodeName)
    IN  getNodeMetadata(nodeName, got[1], got[2], NoError)

\* The tag of a service.
ServiceTag(svc) == "kube_service:" \o svc

\* The tags of a set of services, as the list handed to the handler.
TagList(svcs) ==
    LET kept == SelectSeq(ServiceOrder, LAMBDA x : x \in svcs)
    IN  [i \in 1..Len(kept) |-> ServiceTag(kept[i])]

\* The pods of node n among a set of backends, as keys <<namespace, pod>>.
PodKeys(backends, n) == {<<x[2], x[3]>> : x \in {y \in backends : y[1] = n}}

\* The services of pod key k in the pod map pods.
ServicesOf(pods, k) == IF k \in DOMAIN pods THEN pods[k] ELSE {}

\* Endpoint add and update: the tag of svc is added to every backend, under
\* the entry of the backend's node; adding it again changes nothing.
AddService(b, svc, backends) ==
    [n \in DOMAIN b \cup {x[1] : x \in backends} |->
        LET pods == IF n \in DOMAIN b THEN b[n] ELSE EmptyBundle
            keys == PodKeys(backends, n)
        IN  [k \in DOMAIN pods \cup keys |->
                ServicesOf(pods, k) \cup (IF k \in keys THEN {svc} ELSE {})]]

\* The pruning policy: a pod key is dropped once its tag set is empty.
Prune(pods) == [k \in {x \in DOMAIN pods : pods[x] # {}} |-> pods[k]]

\* Faulty variant: the pods of the deleted service are dropped with all
\* their tags.
DeleteService_DropPods(b, svc) ==
    [n \in DOMAIN b |->
        [k \in {x \in DOMAIN b[n] : svc \notin b[n][x]} |-> b[n][k]]]

\* Endpoint delete: the tag of svc is removed from every pod that has it.
DeleteService(b, svc) ==
    [n \in DOMAIN b |-> Prune([k \in DOMAIN b[n] |-> b[n][k] \ {svc}])]

\* An Endpoint event is applied to PodTagBundle.
EndpointEvent(op, svc, backends, after) ==
    /\ podBundle' = after
    /\ endpointEvents' = Recent(Append(endpointEvents,
                             [op |-> op, svc |-> svc, backends |-> backends,
                              before |-> podBundle]), 1)
    /\ UNCHANGED <<orchVars, queryVars, leaderVars, nodeBundle, nodeEvents>>

EndpointAdd(svc, backends) ==
    EndpointEvent("add", svc, backends, AddService(podBundle, svc, backends))

EndpointUpdate(svc, backends) ==
    /\ \E n \in DOMAIN podBundle :
          \E k \in DOMAIN podBundle[n] : svc \in podBundle[n][k]
    /\ EndpointEvent("update", svc, backends, AddService(podBundle, svc, backends))

EndpointDelete(svc) ==
    EndpointEvent("delete", svc, {}, DeleteService(podBundle, svc))

\* as.GetPodMetadataNames(nodeName, ns, podName) on bundle b: the tags, or the
\* error of a pod that has no entry.
GetPodMetadataNames(b, nodeName, ns, podName) ==
    IF nodeName \in DOMAIN b /\ <<ns, podName>> \in DOMAIN b[nodeName]
      THEN <<List(TagList(b[nodeName][<<ns, podName>>])), NoError>>
      ELSE <<Nil, "no cached metadata found for the pod">>

\* The answer of GET /tags/pod/{nodeName}/{ns}/{podName} on bundle b.
ByPod(b, x) ==
    LET got == GetPodMetadataNames(b, x[1], x[2], x[3])
    IN  getPodMetadata(x[1], x[2], x[3], got[1], got[2], NoError)

\* The service tags an answer carries: those of a 200 body.
TagsIn(r) ==
    IF r.w.status = StatusOK
      THEN {r.w.body[i] : i \in 1..Len(r.w.body)}
             \cap {ServiceTag(svc) : svc \in ServiceNames}
      ELSE {}

(***************************************************************************)
(* Specification of the orchestrator.                                      *)
(***************************************************************************)

Init ==
    /\ config \in [ConfigKeys -> BOOLEAN]
    /\ wpaFactory \in BOOLEAN
    /\ stopCh = FALSE
    /\ pc = "loop"
    /\ cur = "none"
    /\ pending = Names
    /\ order = <<>>
    /\ enabledCalls = [n \in Names |-> 0]
    /\ started = [n \in Names |-> 0]
    /\ result = [n \in Names |-> "none"]
    /\ informer = [k \in Kinds |-> "none"]
    /\ hasSynced = {}
    /\ handlers = [k \in Kinds |-> {}]
    /\ tasks = {}
    /\ waitSet = {}
    /\ elapsed = 0
    /\ syncCalls = [n \in Names |-> 0]
    /\ syncReturn = [n \in Names |-> NoReturn]
    /\ factoryStarts = 0
    /\ retVal = "none"
    /\ apiRequests = [key \in CounterKeys |-> 0]
    /\ served = 0
    /\ resp = NoResponse
    /\ isLeader = FALSE
    /\ tick = "idle"
    /\ nodeBundle = EmptyBundle
    /\ nodeEvents = <<>>
    /\ podBundle = EmptyBundle
    /\ endpointEvents = <<>>

\* StartControllers, the start routines and the informers of the factory.
OrchestratorNext ==
    \/ \E name \in Names : LoopVisit(name)
    \/ FactoryStartAndReturn
    \/ startMetadataController
    \/ startAutoscalersController
    \/ startAutoscalersControllerFails
    \/ startServicesInformer
    \/ startEndpointsInformer
    \/ SyncTick
    \/ SyncInformersReturn
    \/ \E k \in Kinds : InformerSync(k)
    \/ Shutdown

Next ==
    \/ OrchestratorNext
    \/ RunWPA

Spec == Init /\ [][Next]_vars

(***************************************************************************)
(* Specification of the orchestrator in a process whose configuration      *)
(* changes: the enabled() predicates read the configuration when called.   *)
(***************************************************************************)

\* A configuration flag is given another value, at any moment.
ConfigChange(key) ==
    /\ config' = [config EXCEPT ![key] = ~@]
    /\ UNCHANGED <<wpaFactory, stopCh, pc, cur, pending, order, enabledCalls,
                   started, result, informer, hasSynced, handlers, tasks,
                   waitSet, elapsed, syncCalls, syncReturn, factoryStarts, retVal,
                   queryVars, leaderVars, bundleVars>>

ConfigNext ==
    \/ OrchestratorNext
    \/ \E key \in ConfigKeys : ConfigChange(key)

\* The process was given no WPA informer factory.
ConfigInit == Init /\ ~wpaFactory

ConfigSpec == ConfigInit /\ [][ConfigNext]_vars

(***************************************************************************)
(* Specification of the orchestrator with the leader election and the      *)
(* autoscalers controller's reconciliation loop.                           *)
(***************************************************************************)

LeaderNext ==
    \/ OrchestratorNext
    \/ LeaderChange
    \/ TickStart
    \/ TickEnd

LeaderSpec == ConfigInit /\ [][LeaderNext]_vars

(***************************************************************************)
(* Specifications of the metadata aggregator: Node events, Endpoint events.*)
(***************************************************************************)

\* Every catalog entry is enabled and there is no WPA informer factory.
BundleInit == ConfigInit /\ \A key \in ConfigKeys : config[key]

NodeNext ==
    \/ \E n \in BundleNodes, labels \in NodeLabelLists : NodeAdd(n, labels)
    \/ \E n \in BundleNodes, labels \in NodeLabelLists : NodeUpdate(n, labels)
    \/ \E n \in BundleNodes : NodeDelete(n)

NodeSpec == BundleInit /\ [][NodeNext]_vars

EndpointNext ==
    \/ \E svc \in ServiceNames, backends \in SUBSET Backends \ {{}} :
          EndpointAdd(svc, backends)
    \/ \E svc \in ServiceNames, backends \in SUBSET Backends \ {{}} :
          EndpointUpdate(svc, backends)
    \/ \E svc \in ServiceNames : EndpointDelete(svc)

EndpointSpec == BundleInit /\ [][EndpointNext]_vars

(***************************************************************************)
(* Specification of the query API.                                         *)
(***************************************************************************)

QueryNext ==
    \/ ServeAllCFAppsMetadata
    \/ ServeNodeMetadata
    \/ ServePodMetadata
    \/ ServePodMetadataForNode
    \/ ServeAllMetadata

QuerySpec == Init /\ [][QueryNext]_vars

(***************************************************************************)
(* Properties of StartControllers (checked under Spec).                    *)
(***************************************************************************)

\* C1: for every catalog entry whose enabled() returns false, the start
\* routine is never invoked (nor its barrier), and the entry is only skipped:
\* no error is recorded for it.
C1_DisabledNeverStarted ==
    \A n \in Names :
        ~enabled(n) =>
            /\ started[n] = 0
            /\ syncCalls[n] = 0
            /\ result[n] \in {"none", "skipped"}
            /\ (n \notin pending => result[n] = "skipped")

\* C1 witness: StartControllers has returned, having skipped a disabled entry
\* and started an enabled one.
C1_Witness ==
    /\ pc = "returned"
    /\ \E n, m \in Names :
          /\ ~enabled(n) /\ result[n] = "skipped"
          /\ enabled(m) /\ started[m] = 1

\* C2: a start routine that returns an error never prevents another
\* controller from starting: no start routine is invoked twice, and when
\* StartControllers has returned, every enabled entry has been started exactly
\* once, whatever the order and whichever start routines failed, and the
\* value returned is nil.
C2_FailureContained ==
    /\ \A n \in Names : started[n] <= 1 /\ enabledCalls[n] <= 1
    /\ retVal \in {"none", "nil"}
    /\ pc = "returned" =>
          /\ retVal = "nil"
          /\ \A n \in Names : enabled(n) => started[n] = 1

\* C2 witness: StartControllers has returned nil; a start routine failed and
\* another entry was started after it.
C2_Witness ==
    /\ pc = "returned"
    /\ retVal = "nil"
    /\ \E i, j \in 1..Len(order) :
          /\ i < j
          /\ result[order[i]] = "err"
          /\ started[order[j]] = 1

\* C3 as stated: event dispatch for nodes, endpoints, services and HPAs begins
\* only after every catalog entry has been processed.
C3_DispatchAfterLoop ==
    \A k \in {"nodes", "endpoints", "services", "hpa"} :
        Dispatching(k) => (pending = {} /\ cur = "none")

\* C3 amended: the informers that only the factory runs (nodes, HPAs) begin
\* dispatch with the factory start that follows the loop, after every entry
\* has been processed; the services and endpoints informers begin dispatch in
\* their own start routine (or, for endpoints, at the factory start when only
\* the metadata controller asked for it).
C3_FactoryDispatchAfterLoop ==
    /\ \A k \in {"nodes", "hpa"} :
          Dispatching(k) => (pending = {} /\ cur = "none" /\ factoryStarts = 1)
    /\ Dispatching("services") => started["services"] = 1
    /\ Dispatching("endpoints") =>
          (started["endpoints"] = 1 \/ (pending = {} /\ factoryStarts = 1))

\* C3 witness: the nodes informer dispatches to the metadata controller's
\* handler after the loop, and the endpoints informer began in its own start
\* routine.
C3_Witness ==
    /\ Dispatching("nodes")
    /\ "metadata" \in handlers["nodes"]
    /\ Dispatching("endpoints")
    /\ started["endpoints"] = 1

\* C4 as stated: StartControllers spends no time in a controller's sync
\* barrier, and the factory has been started exactly once when it returns.
C4_ReturnNotDelayedBySync ==
    /\ ~(pc = "sync" /\ elapsed > 0)
    /\ pc = "returned" => factoryStarts = 1

\* C4 amended: StartControllers returns nil only after the sync barrier of
\* every start routine it invoked has returned (synced or timed out); the
\* factory is started exactly once, after the loop and at the return.
C4_ReturnsAfterBarriers ==
    /\ factoryStarts <= 1
    /\ (pc = "returned") <=> (factoryStarts = 1)
    /\ pc = "returned" =>
          /\ retVal = "nil"
          /\ \A n \in Names : syncCalls[n] = 1 => syncReturn[n].returned
          /\ \A n \in Names : started[n] = 1 => result[n] \in {"ok", "err"}

\* C4 witness: StartControllers has returned after a barrier that waited for
\* the whole timeout.
C4_Witness ==
    /\ pc = "returned"
    /\ factoryStarts = 1
    /\ \E n \in Names :
          /\ syncReturn[n].returned
          /\ syncReturn[n].elapsed = SyncTimeout

\* C5: the sync barrier always ends within the configured bound: it is never
\* stuck, it does not wait once every named cache has synced (success at
\* once), it returns an error naming the caches that did not sync when the
\* bound is reached; a start routine returns success only if every cache of
\* its sync set has synced, and calls the barrier once.
C5_BarrierEnds ==
    /\ elapsed <= SyncTimeout
    /\ pc = "sync" => (ENABLED SyncTick \/ ENABLED SyncInformersReturn)
    /\ (pc = "sync" /\ NotSynced(waitSet) = {}) => ~ENABLED SyncTick
    /\ \A n \in Names :
          /\ syncCalls[n] <= 1
          /\ syncReturn[n].returned =>
                /\ syncReturn[n].caches = SyncSetOf(n)
                /\ syncReturn[n].elapsed <= SyncTimeout
                /\ syncReturn[n].err <=> (result[n] = "err")
                /\ syncReturn[n].err =>
                      /\ syncReturn[n].elapsed = SyncTimeout
                      /\ syncReturn[n].failed # {}
                      /\ syncReturn[n].failed \subseteq syncReturn[n].caches
                /\ ~syncReturn[n].err => syncReturn[n].failed = {}
          /\ result[n] = "ok" =>
                /\ syncReturn[n].returned
                /\ SyncSetOf(n) \subseteq hasSynced

\* C5 witness: one barrier returned success without waiting, another returned
\* at the timeout an error naming the nodes cache.
C5_Witness ==
    /\ syncReturn["services"].returned
    /\ ~syncReturn["services"].err
    /\ syncReturn["services"].elapsed = 0
    /\ syncReturn["metadata"].returned
    /\ syncReturn["metadata"].err
    /\ "nodes" \in syncReturn["metadata"].failed

\* C6 as stated: once ctx.StopCh is closed no goroutine launched by a start
\* routine goes on, and a pending sync wait returns without waiting for the
\* timer any longer.
C6_ShutdownUnblocksBarrier ==
    /\ [](stopCh => \A t \in Tasks, k \in Kinds : ~TaskLive(t) /\ ~InformerLive(k))
    /\ [][(stopCh /\ pc = "sync") => ~(pc' = "sync" /\ elapsed' > elapsed)]_vars

(***************************************************************************)
(* Properties of the query handlers (checked under QuerySpec).             *)
(***************************************************************************)

RECURSIVE SumOver(_, _)
SumOver(counter, keys) ==
    IF keys = {} THEN 0
    ELSE LET key == CHOOSE x \in keys : TRUE
         IN  counter[key] + SumOver(counter, keys \ {key})

\* C7: every request served increments the request counter exactly once.
C7_OneIncrementPerRequest ==
    /\ resp.served => Len(resp.incs) = 1
    /\ SumOver(apiRequests, CounterKeys) = served

\* C7 witness: a second request, answered 503 by getAllMetadata, has been
\* counted.
C7_Witness ==
    /\ resp.served
    /\ served = 2
    /\ resp.handler = "getAllMetadata"
    /\ resp.status = StatusServiceUnavailable
    /\ Len(resp.incs) = 1

\* C8 as stated: the key of the counter increment is (the handler that served
\* the request, the status sent in the response).
C8_CounterKeyMatchesResponse ==
    resp.served =>
        \A i \in 1..Len(resp.incs) : resp.incs[i] = <<resp.handler, resp.status>>

\* C9 as stated: a by-node or by-pod query whose result is empty or absent is
\* answered 404 with a message naming the queried node (and pod).
C9_EmptyResultNotFound ==
    (/\ resp.served
     /\ resp.handler \in {"getNodeMetadata", "getPodMetadata"}
     /\ resp.collabErr = NoError
     /\ resp.encErr = NoError
     /\ resp.value.items = <<>>)
    => /\ resp.status = StatusNotFound
       /\ \A i \in 1..Len(resp.key) :
             (resp.handler = "getNodeMetadata" \/ i # 2) =>
                 \E j \in 1..Len(resp.body) : resp.body[j] = resp.key[i]

\* C10 as stated: a collaborator failure (the call the handler depends on, or
\* the encoding of the payload) is answered 500 with the error text as body.
C10_FailureIsInternalError ==
    (/\ resp.served
     /\ (resp.collabErr # NoError \/ resp.encErr # NoError))
    => /\ resp.status = StatusInternalServerError
       /\ resp.body = <<IF resp.collabErr # NoError THEN resp.collabErr
                                                     ELSE resp.encErr>>

\* C11 as stated: the whole-cluster query answers 503 exactly when the
\* aggregator reports an error and 200 exactly when it reports none, and every
\* 503 response carries the aggregator's partial payload as its body.
C11_AggregateStatusAndBody ==
    (/\ resp.served
     /\ resp.handler = "getAllMetadata"
     /\ resp.collabErr = NoError)
    => /\ (resp.status = StatusServiceUnavailable) <=> (resp.aggErr # NoError)
       /\ (resp.status = StatusOK) <=> (resp.aggErr = NoError)
       /\ resp.status = StatusServiceUnavailable => resp.body = Marshal(resp.value)

C13_PodMapForNodeAlwaysOK ==
    (/\ resp.served
     /\ resp.handler = "getPodMetadataForNode"
     /\ resp.encErr = NoError)
    => /\ resp.status = StatusOK
       /\ resp.body = Marshal(resp.value)
       /\ resp.headerCalls = <<StatusOK>>

\* C13 witness: the aggregator returned an empty map and an error, and the
\* answer is 200 with the empty map.
C13_Witness ==
    /\ resp.served
    /\ resp.handler = "getPodMetadataForNode"
    /\ resp.aggErr # NoError
    /\ resp.value = Map(<<>>)
    /\ resp.status = StatusOK
    /\ resp.body = <<"{", "}">>

\* C20 as stated: a handler sets the response status at most once, and the
\* status the client receives is the last one the handler chose and the one it
\* counted.
C20_StatusCommittedOnce ==
    resp.served =>
        /\ Len(resp.headerCalls) <= 1
        /\ resp.headerCalls # <<>> =>
              resp.status = resp.headerCalls[Len(resp.headerCalls)]
        /\ \A i \in 1..Len(resp.incs) : resp.incs[i][2] = resp.status

Decisions == <<enabledCalls, started, result, syncCalls>>

\* C14: within one StartControllers run each entry's enabled() is called at
\* most once, and exactly once by the time the run returns; an entry is
\* started exactly when that one call said so; after the run, whatever the
\* flags become, no entry is visited or started again, a skipped entry has
\* launched nothing, and what a started entry launched goes on until shutdown.
C14_EnabledEvaluatedOnce ==
    /\ [](\A n \in Names :
            /\ enabledCalls[n] <= 1
            /\ started[n] <= enabledCalls[n]
            /\ (result[n] = "skipped") => (started[n] = 0 /\ syncCalls[n] = 0))
    /\ [](pc = "returned" =>
            /\ \A n \in Names :
                  /\ enabledCalls[n] = 1
                  /\ (result[n] = "skipped") <=> (started[n] = 0)
            /\ (started["metadata"] = 0) => ("metaController.Run" \notin tasks)
            /\ (started["metadata"] = 1) => (TaskLive("metaController.Run") <=> ~stopCh)
            /\ (started["autoscalers"] = 0) => ("RunControllerLoop" \notin tasks)
            /\ (started["services"] = 1) => (InformerLive("services") <=> ~stopCh)
            /\ (started["endpoints"] = 1) => (InformerLive("endpoints") <=> ~stopCh))
    /\ [][pc = "returned" =>
            /\ Decisions' = Decisions
            /\ tasks' = tasks
            /\ \A k \in Kinds : Dispatching(k) => Dispatching(k)']_vars

\* C14 witness: the run has returned; an entry it skipped has since been
\* enabled and is still not started, and an entry it started has since been
\* disabled and still runs.
C14_Witness ==
    /\ pc = "returned"
    /\ ~stopCh
    /\ result["metadata"] = "skipped"
    /\ enabled("metadata")
    /\ started["metadata"] = 0
    /\ started["services"] = 1
    /\ ~enabled("services")
    /\ InformerLive("services")

(***************************************************************************)
(* Properties of the leader-gated controller (checked under LeaderSpec).   *)
(***************************************************************************)

\* C16: a reconciliation tick only starts in a state where isLeader() is
\* true; while the process is not the leader no tick can start, though the
\* one under way may still end.
C16_TickStartsOnlyAsLeader ==
    /\ [][(tick = "idle" /\ tick' = "running") => isLeader]_vars
    /\ []((~isLeader /\ tick = "idle") => ~ENABLED TickStart)
    /\ []((~isLeader /\ tick = "running") => ENABLED TickEnd)

\* C16 witness: leadership was lost during a tick, which is still running.
C16_Witness ==
    /\ tick = "running"
    /\ ~isLeader
    /\ TaskLive("RunControllerLoop")

(***************************************************************************)
(* Properties of the metadata aggregator (checked under NodeSpec and       *)
(* EndpointSpec).                                                          *)
(***************************************************************************)

\* The last two Node events are an add of a node that had no entry, then a
\* delete of the same node.
NodeAddThenDelete ==
    /\ Len(nodeEvents) = 2
    /\ nodeEvents[1].op = "add"
    /\ nodeEvents[2].op = "delete"
    /\ nodeEvents[1].node = nodeEvents[2].node
    /\ nodeEvents[1].node \notin DOMAIN nodeEvents[1].before

\* C17: a Node add of an absent node followed by the delete of that node
\* leaves the node bundle exactly as it was before the add, and the by-node
\* query for that name is answered as for a node never seen.
C17_NodeAddDeleteRoundTrip ==
    NodeAddThenDelete =>
        /\ nodeBundle = nodeEvents[1].before
        /\ ByNode(nodeBundle, nodeEvents[1].node).w
             = ByNode(nodeBundle, UnknownNode).w
        /\ ByNode(nodeBundle, nodeEvents[1].node).w
             = ByNode(nodeEvents[1].before, nodeEvents[1].node).w

\* C17 witness: the add and the delete were applied to a bundle that holds
\* another node, and the by-node query is answered with the lookup's error.
C17_Witness ==
    /\ NodeAddThenDelete
    /\ nodeEvents[1].before # EmptyBundle
    /\ nodeEvents[2].before # nodeBundle
    /\ ByNode(nodeBundle, nodeEvents[1].node).w.status = StatusInternalServerError

\* The last Endpoint event.
LastEndpointEvent == endpointEvents[Len(endpointEvents)]

\* C18: after an Endpoint add of service S the by-pod query of each of its
\* backends carries "kube_service:S"; after an Endpoint delete of S no by-pod
\* answer carries that tag, every pod keeps its other service tags, and a pod
\* left with no tag is answered as a pod never seen (its key is dropped).
C18_EndpointAddDelete ==
    endpointEvents # <<>> =>
        LET e == LastEndpointEvent IN
        /\ e.op \in {"add", "update"} =>
              /\ \A x \in e.backends :
                    /\ ByPod(podBundle, x).w.status = StatusOK
                    /\ ServiceTag(e.svc) \in TagsIn(ByPod(podBundle, x))
              /\ \A x \in Backends \ e.backends :
                    ByPod(podBundle, x) = ByPod(e.before, x)
        /\ e.op = "delete" =>
              \A x \in Backends :
                 /\ ServiceTag(e.svc) \notin TagsIn(ByPod(podBundle, x))
                 /\ TagsIn(ByPod(podBundle, x))
                      = TagsIn(ByPod(e.before, x)) \ {ServiceTag(e.svc)}
                 /\ (TagsIn(ByPod(podBundle, x)) = {}) =>
                       ByPod(podBundle, x).w = ByPod(podBundle, UnknownPod).w

\* C18 witness: svc-a was added to pod (default, p1) of n1 and to the only
\* pod of n2, svc-b to pod (default, p1) of n1, and svc-a is then deleted: the
\* first pod still has the tag of svc-b, and the other is no longer known.
C18_Witness ==
    /\ endpointEvents # <<>>
    /\ LastEndpointEvent.op = "delete"
    /\ LastEndpointEvent.svc = "svc-a"
    /\ TagsIn(ByPod(LastEndpointEvent.before, <<"n1", "default", "p1">>))
         = {"kube_service:svc-a", "kube_service:svc-b"}
    /\ TagsIn(ByPod(LastEndpointEvent.before, <<"n2", "default", "p3">>))
         = {"kube_service:svc-a"}
    /\ ByPod(podBundle, <<"n1", "default", "p1">>).w.body
         = <<"[", "kube_service:svc-b", "]">>
    /\ ByPod(podBundle, <<"n2", "default", "p3">>).w.status # StatusOK

====
